---- MODULE Spec2Model ----
(***************************************************************************)
(* Capture-Store-Sync engine of the location tracker.                      *)
(*                                                                         *)
(* The repository holds several builds of the engine.  Exactly one of them *)
(* runs in a behaviour; Init picks it (variable `variant`):                *)
(*   "web"    src/src/App.jsx lines 1-796: Logger, StorageManager and the  *)
(*            App component with trackingLock / lastCaptureTime            *)
(*   "settings"  the same component, with the user changing the interval   *)
(*            setting and withdrawing the location permission              *)
(*   "gps"    the same component, with the calls of checkGPS that          *)
(*            startGPSChecker makes                                        *)
(*   "queue"  src/src/App.jsx lines 1003-1269: the App component with the  *)
(*            offline_queue and handleSync                                 *)
(*   "native" LocationServicePlugin.java + LocationTrackerService.java     *)
(*   "watchdog"  LocationTrackerService.java over hours, never destroyed:  *)
(*            onStartCommand, the task of start7HourCheck, captures, POSTs *)
(*   "page"   src/unnamed/part_005: the page that drives the plugin, its   *)
(*            startTracking / stopTracking and window.trackingInterval     *)
(*                                                                         *)
(* Times are milliseconds (Date.now / System.currentTimeMillis).           *)
(* Coordinates are integers in units of 0.0000005 degree, so that the      *)
(* literal 0.000001 of App.jsx:303 is Eps = 2.                             *)
(***************************************************************************)
EXTENDS Integers, Sequences, FiniteSets, TLC

(* ------------------------------ bounds -------------------------------- *)
\* slice(0, 50) of App.jsx:314 and limitJsonArray(historyJson, 50) of
\* LocationTrackerService.java:199, scaled down
HistoryCapacity == 2
\* Logger.maxLogs (App.jsx:12), scaled down
MaxLogs == 1
\* the clock stops advancing here
MaxTime == 12000
\* ... and here in the native build
MaxNativeTime == 4000
\* ... and here in the settings build
MaxSettingsTime == 6000
\* ... and here in the gps build
MaxGpsTime == 4000
\* handleStartTracking calls still awaiting Geolocation.checkPermissions
MaxPendingStarts == 1
\* storage faults injected in one behaviour (a throwing setItem, a torn or lost slot)
MaxFaults == 1
\* locations the native service receives in one behaviour
MaxCaptures == 3
\* watchdog tasks scheduled on one executor (one per onStartCommand)
MaxCheckTasks == 2
\* points the queue build captures in one behaviour
MaxPoints == 3
\* getCurrentPosition requests of the queue build awaiting their callback
MaxRequests == 2
\* handleSync calls awaiting Promise.all
MaxSyncs == 2
\* startTracking calls of the page build in one behaviour
MaxPageStarts == 3
\* hours the clock of the watchdog build advances
MaxWatchHours == 8
\* locations the service receives in the watchdog build
MaxWatchCaptures == 1

(* --------------------------- program constants ------------------------ *)
MinGapMs == 10000
DedupWindowMs == 30000
Eps == 2

\* SystemClock.elapsedRealtime() + 1000, LocationTrackerService.java:109
RestartDelayMs == 1000
\* currentInterval * 60 * 1000, App.jsx:366
MsPerMinute == 60000
\* (now - lastUpload) / (1000 * 60 * 60), LocationTrackerService.java:287
MsPerHour == 3600000
\* hoursSinceUpload >= 7, LocationTrackerService.java:291
StaleHours == 7

StartTime == 2000
TickSteps == {2000, 10000}
\* positions the provider reports: <<latitude, longitude>>
Positions == {<<0, 0>>, <<1, 0>>, <<2, 0>>, <<0, 3>>}
ErrorKinds == {"timeout", "denied"}
\* option values of the interval select that the user picks
IntervalChoices == {"1", "2"}
\* positions the provider reports in the settings build
SettingsPositions == {<<0, 0>>}
StorageFaults == {"none", "primary", "backup"}
Providers == {"gps", "network"}
NativePositions == {<<0, 0>>, <<1, 0>>}
\* how a POST ends: the response code, or an exception
PostOutcomes == {"200", "302", "500", "exception"}
\* the providers enabled when the watchdog build starts location updates
WatchProviders == {{"gps"}}

Null == "null"
Undefined == "undefined"
\* the promise an async function returns
PromiseValue == "promise"

VARIABLES
    variant,                 \* which build runs
    now,                     \* wall clock
    (* web build: process state *)
    alive,                   \* the WebView process runs
    isTracking,              \* useState(false), App.jsx:165
    depIsTracking,           \* isTracking as of the last run of the tracking effect
    history,                 \* useState([]), App.jsx:167
    interval,                \* useState(5), App.jsx:168
    trackingLock,            \* useRef(false), App.jsx:174
    intervalRef,             \* useRef(null), App.jsx:175
    lastCaptureTime,         \* useRef(0), App.jsx:176
    inflight,                \* captureLocation calls awaiting getCurrentPosition
    pendingCb,               \* the interval callback waits to be called as a state updater
    autoResumed,             \* this run took isTracking from was_tracking (App.jsx:199-203)
    startChecks,             \* handleStartTracking calls awaiting checkPermissions
    lastSaveOk,              \* what the last StorageManager.saveHistory resolved to
    intervalMs,              \* intervalMs of the tracking effect's last start, 0 before
    gpsEnabled,              \* useState(true), App.jsx:172
    gpsChecks,               \* checkGPS calls awaiting getCurrentPosition
    gpsCheckResult,          \* how the checkGPS settled last got its position
    faults,                  \* storage faults injected so far
    (* web build: localStorage *)
    location_history,
    location_history_backup,
    was_tracking,
    tracking_interval,
    app_logs,
    (* settings build: the host's BootReceiver *)
    CapacitorStorage,        \* SharedPreferences "CapacitorStorage": key -> value
    bootOutcome,             \* what the last BOOT_COMPLETED broadcast led to
    (* native build: LocationTrackerService and its host *)
    svcRunning,              \* a service instance exists (onCreate ran, onDestroy did not)
    registered,              \* providers the service's listener is registered with
    checkTasks,              \* 7-hour checks scheduled on the executor
    posts,                   \* captures whose postToSheets thread has not finished
    restartAlarm,            \* due time of the restart alarm, 0 when none is set
    stickyPending,           \* the system owes a START_STICKY restart
    taskPresent,             \* the app's task (activity and WebView) exists
    uiTracking,              \* isTracking of the page driving the plugin (part_005:8)
    userStopped,             \* the last user action on tracking was a stop
    captured,                \* locations received so far
    delivered,               \* captures whose POST was answered 200 or 302
    postResult,              \* how the last POST ended: responseCode, or "exception"
    storeFailed,             \* the last onLocationChanged logged "Failed to save location"
    sheetRows,               \* captures that have a row in the sheet (appendRow of doPost)
    (* native build: SharedPreferences "TrackeractPrefs" *)
    prefs_location_history,
    last_upload_time,
    sheets_url,
    (* watchdog build: the executor's 7-hour checks *)
    checksDue,               \* runs of the scheduled check that are due now
    lastCheck,               \* what the last run logged: hoursSinceUpload, and the WARN
    alertsInPeriod,          \* WARN alerts logged since the last full hour
    createdAt,               \* time of the onCreate of the running instance
    (* page build: part_005 *)
    pgTracking,              \* useState(false), part_005:8
    pgPermWaits,             \* startTracking calls awaiting checkPermissions
    pgSvcWaits,              \* startTracking calls awaiting LocationService.startService
    pgTimers,                \* handles of the armed setInterval timers
    trackingInterval,        \* window.trackingInterval
    pgHandles,               \* handles setInterval has returned so far
    (* queue build: process state *)
    qAlive,                  \* the process runs
    qIsTracking,             \* useState(false), App.jsx:1047
    queue,                   \* useState([]), App.jsx:1044
    qHistory,                \* useState([]), App.jsx:1045 (`history`)
    isOnline,                \* useState(navigator.onLine), App.jsx:1046
    qTimer,                  \* the 5 minute timer of the tracking effect is armed
    qRequests,               \* getCurrentPosition requests awaiting their callback
    syncs,                   \* handleSync calls awaiting Promise.all: the queue each saw
    qPoints,                 \* points captured so far
    qDelivered,              \* ids of the points whose addDoc succeeded
    sinkOrder,               \* ids written by the sync settled last, in the order the sink got them
    (* queue build: localStorage *)
    offline_queue,
    loc_history

webMem == <<alive, isTracking, depIsTracking, history, interval, trackingLock,
            intervalRef, lastCaptureTime, inflight, pendingCb, autoResumed,
            startChecks, lastSaveOk, intervalMs, gpsEnabled, gpsChecks,
            gpsCheckResult>>
webStore == <<location_history, location_history_backup, was_tracking,
              tracking_interval, app_logs>>
webVars == <<webMem, webStore>>
natVars == <<svcRunning, registered, checkTasks, posts, restartAlarm, stickyPending,
             taskPresent, uiTracking, userStopped, captured, delivered, postResult,
             storeFailed, sheetRows, prefs_location_history, last_upload_time,
             sheets_url>>
qVars == <<qAlive, qIsTracking, queue, qHistory, isOnline, qTimer, qRequests, syncs,
           qPoints, qDelivered, sinkOrder, offline_queue, loc_history>>
pgVars == <<pgTracking, pgPermWaits, pgSvcWaits, pgTimers, trackingInterval, pgHandles>>
bootVars == <<CapacitorStorage, bootOutcome>>
wdVars == <<checksDue, lastCheck, alertsInPeriod, createdAt>>
vars == <<variant, now, faults, webVars, bootVars, natVars, wdVars, pgVars, qVars>>

(* ------------------------------ helpers ------------------------------- *)
Min(a, b) == IF a < b THEN a ELSE b
Abs(x) == IF x < 0 THEN -x ELSE x
LastN(s, n) == IF Len(s) <= n THEN s ELSE SubSeq(s, Len(s) - n + 1, Len(s))

(* --------------------- JSON text as token sequences ------------------- *)
P(c) == [c |-> c, id |-> 0, latitude |-> 0, longitude |-> 0]
Body(e) == [c |-> "body", id |-> e.id, latitude |-> e.latitude, longitude |-> e.longitude]
EntryOf(t) == [id |-> t.id, latitude |-> t.latitude, longitude |-> t.longitude]

RECURSIVE StringifyItems(_)
StringifyItems(h) ==
    IF h = <<>> THEN <<>>
    ELSE <<P("{"), Body(h[1]), P("}")>> \o
         (IF Len(h) = 1 THEN <<>> ELSE <<P(",")>> \o StringifyItems(Tail(h)))

JSONstringify(h) == <<P("[")>> \o StringifyItems(h) \o <<P("]")>>

ParseFail == [ok |-> FALSE, val |-> <<>>]

RECURSIVE ParseItems(_, _, _)
ParseItems(s, i, acc) ==
    IF i + 3 > Len(s) THEN ParseFail
    ELSE IF s[i].c = "{" /\ s[i + 1].c = "body" /\ s[i + 2].c = "}"
    THEN LET acc2 == Append(acc, EntryOf(s[i + 1])) IN
         IF s[i + 3].c = "]"
         THEN (IF i + 3 = Len(s) THEN [ok |-> TRUE, val |-> acc2] ELSE ParseFail)
         ELSE IF s[i + 3].c = "," THEN ParseItems(s, i + 4, acc2)
         ELSE ParseFail
    ELSE ParseFail

JSONparse(s) ==
    IF Len(s) < 2 \/ s[1].c # "[" THEN ParseFail
    ELSE IF s[2].c = "]"
    THEN (IF Len(s) = 2 THEN [ok |-> TRUE, val |-> <<>>] ELSE ParseFail)
    ELSE ParseItems(s, 2, <<>>)

\* a localStorage slot: getItem gives null when the key is absent
Absent == [present |-> FALSE, text |-> <<>>]
Stored(text) == [present |-> TRUE, text |-> text]
Truthy(slot) == slot.present /\ slot.text # <<>>

(* ------------------------------- Logger ------------------------------- *)
L(level, category, message) == [level |-> level, category |-> category, message |-> message]

\* Logger.log for each entry of es in turn: push, keep the last maxLogs, saveLogs
LogAll(logs, es) == LastN(logs \o es, MaxLogs)

(* --------------------------- StorageManager --------------------------- *)
\* saveHistory that reports success although the backup write threw
saveHistory_okWithoutBackup(h, primary, backup, fault) ==
    LET data == JSONstringify(h) IN
    IF fault = "primary"
    THEN [primary |-> primary, backup |-> backup, ret |-> FALSE,
          logs |-> <<L("ERROR", "STORAGE", "Save failed")>>]
    ELSE IF fault = "backup"
    THEN [primary |-> Stored(data), backup |-> backup, ret |-> TRUE,
          logs |-> <<L("DEBUG", "STORAGE", "Verified save")>>]
    ELSE [primary |-> Stored(data), backup |-> Stored(data), ret |-> TRUE,
          logs |-> <<L("DEBUG", "STORAGE", "Verified save")>>]

\* StorageManager.saveHistory.  fault names the setItem that throws
\* (QuotaExceededError), "none" when both writes go through.
\* Gives the two slots, the value returned and the entries logged.
saveHistory(h, primary, backup, fault) ==
    LET data == JSONstringify(h) IN
    IF fault = "primary"
    THEN [primary |-> primary, backup |-> backup, ret |-> FALSE,
          logs |-> <<L("ERROR", "STORAGE", "Save failed")>>]
    ELSE IF fault = "backup"
    THEN [primary |-> Stored(data), backup |-> backup, ret |-> FALSE,
          logs |-> <<L("ERROR", "STORAGE", "Save failed")>>]
    ELSE LET verified == Stored(data).text IN
         IF verified = data
         THEN [primary |-> Stored(data), backup |-> Stored(data), ret |-> TRUE,
               logs |-> <<L("DEBUG", "STORAGE", "Verified save")>>]
         ELSE [primary |-> Stored(data), backup |-> Stored(data), ret |-> FALSE,
               logs |-> <<L("ERROR", "STORAGE", "Verification failed!")>>]

\* StorageManager.loadHistory: the log returned and the entries logged
loadHistory(primary, backup) ==
    IF Truthy(primary)
    THEN LET r == JSONparse(primary.text) IN
         IF r.ok
         THEN [val |-> r.val, logs |-> <<L("INFO", "STORAGE", "Loaded records from primary")>>]
         ELSE [val |-> <<>>, logs |-> <<L("ERROR", "STORAGE", "Load failed")>>]
    ELSE IF Truthy(backup)
    THEN LET r == JSONparse(backup.text) IN
         IF r.ok
         THEN [val |-> r.val, logs |-> <<L("WARN", "STORAGE", "Loaded records from BACKUP")>>]
         ELSE [val |-> <<>>, logs |-> <<L("ERROR", "STORAGE", "Load failed")>>]
    ELSE [val |-> <<>>, logs |-> <<L("INFO", "STORAGE", "No history found")>>]

(* --------------------------- captureLocation -------------------------- *)
\* the duplicate check of the setHistory updater
\* a duplicate check that does not compare the ids
isDuplicate_nearbyOnly(prev, newEntry) ==
    \E i \in 1..Len(prev) :
        /\ Abs(prev[i].latitude - newEntry.latitude) < Eps
        /\ Abs(prev[i].longitude - newEntry.longitude) < Eps
        /\ prev[i].id # newEntry.id
        /\ Abs(prev[i].id - newEntry.id) < DedupWindowMs

isDuplicate(prev, newEntry) ==
    \E i \in 1..Len(prev) :
        \/ prev[i].id = newEntry.id
        \/ /\ Abs(prev[i].latitude - newEntry.latitude) < Eps
           /\ Abs(prev[i].longitude - newEntry.longitude) < Eps
           /\ Abs(prev[i].id - newEntry.id) < DedupWindowMs

\* [newEntry, ...prev].slice(0, 50)
\* an append that puts the new entry behind the others and evicts the head
appendEntry_atTail(newEntry, prev) ==
    LET all == prev \o <<newEntry>>
    IN SubSeq(all, IF Len(all) > HistoryCapacity THEN 2 ELSE 1, Len(all))

appendEntry(newEntry, prev) ==
    SubSeq(<<newEntry>> \o prev, 1, Min(HistoryCapacity, Len(prev) + 1))

\* the gap guard of captureLocation
tooSoon(t, last) == (t - last) < MinGapMs /\ last # 0

\* captureLocation without the trackingLock test
captureLocationSync_noLock(lock, last, t) ==
    IF tooSoon(t, last)
    THEN [lock |-> lock, requested |-> FALSE,
          logs |-> <<L("DEBUG", "TRACK", "Skipped: too soon")>>]
    ELSE [lock |-> TRUE, requested |-> TRUE,
          logs |-> <<L("INFO", "TRACK", "Starting capture")>>]

\* captureLocation up to its await: the guards, the lock and the request.
\* Gives the lock, whether a position request was issued, and the entries logged.
captureLocationSync(lock, last, t) ==
    IF lock
    THEN [lock |-> lock, requested |-> FALSE,
          logs |-> <<L("DEBUG", "TRACK", "Skipped: already capturing")>>]
    ELSE IF tooSoon(t, last)
    THEN [lock |-> lock, requested |-> FALSE,
          logs |-> <<L("DEBUG", "TRACK", "Skipped: too soon")>>]
    ELSE [lock |-> TRUE, requested |-> TRUE,
          logs |-> <<L("INFO", "TRACK", "Starting capture")>>]

\* Numbers held in the `interval` state are written as their decimal text, next
\* to Undefined and PromiseValue.  NaN stands for the not-a-number value.
NaN == -1

\* parseInt of a stored text
parseInt(text) ==
    IF text = "1" THEN 1 ELSE IF text = "2" THEN 2 ELSE IF text = "5" THEN 5 ELSE NaN

\* a * b of JavaScript numbers
Times(a, b) == IF a = NaN \/ b = NaN THEN NaN ELSE a * b

\* value.toString() of a value of the `interval` state other than undefined
toString(v) == IF v = PromiseValue THEN "[object Promise]" ELSE v

\* `setInterval` inside App is the setter of useState(5) (App.jsx:168), not the
\* timer function: called with a callback it arms no timer, returns undefined
\* and has React call the callback once as the state updater, whose result
\* (undefined) becomes the `interval` state.
setIntervalResult == Undefined

TimerArmed == intervalRef # Null /\ intervalRef # Undefined

\* The builds of the web app: "web" meets storage faults, every position and
\* provider timeouts; "settings" has the user change the interval setting and
\* withdraw the location permission, and meets no storage fault; "gps" is the
\* settings build without the interval setting, with the calls of checkGPS.
WebVariants == {"web", "settings", "gps"}
FaultBudget == IF variant = "web" THEN MaxFaults ELSE 0
PositionsMet == IF variant = "web" THEN Positions ELSE SettingsPositions
ErrorsMet == IF variant = "web" THEN {"timeout"} ELSE ErrorKinds

RemoveAt(s, i) == SubSeq(s, 1, i - 1) \o SubSeq(s, i + 1, Len(s))

(* =========================== web build ================================ *)
WebInit ==
    /\ alive = FALSE
    /\ isTracking = FALSE
    /\ depIsTracking = FALSE
    /\ history = <<>>
    /\ interval = "5"
    /\ trackingLock = FALSE
    /\ intervalRef = Null
    /\ lastCaptureTime = 0
    /\ inflight = <<>>
    /\ pendingCb = FALSE
    /\ autoResumed = FALSE
    /\ startChecks = 0
    /\ lastSaveOk = FALSE
    /\ intervalMs = 0
    /\ gpsEnabled = TRUE
    /\ gpsChecks = 0
    /\ gpsCheckResult = "none"
    /\ location_history = Absent
    /\ location_history_backup = Absent
    /\ was_tracking = Null
    /\ tracking_interval = Null
    /\ app_logs = <<>>
    /\ CapacitorStorage = <<>>
    /\ bootOutcome = "none"

\* startGPSChecker (App.jsx:225-246) calls checkGPS once itself (line 244)
\* and hands it to `setInterval`, the state setter (line 245), which calls it
\* once more as a state updater on the next render; no timer is armed.  The
\* gps build follows these calls; in the other builds of the web app they
\* stay out of the picture.
CheckerCalls == IF variant = "gps" THEN 1 + 1 ELSE 0

\* a process start whose loadHistory removes the primary key once it was read
AppStart_consuming ==
    /\ variant \in WebVariants
    /\ ~alive
    /\ LET loaded == loadHistory(location_history, location_history_backup)
           wasTracking == (was_tracking = "true")
           es == (IF app_logs # <<>>
                  THEN <<L("INFO", "LOGGER", "Loaded logs from storage")>> ELSE <<>>)
                 \o <<L("INFO", "APP", "Application Started")>>
                 \o loaded.logs
                 \o (IF tracking_interval # Null
                     THEN <<L("INFO", "SETTINGS", "Loaded interval")>>
                     ELSE <<L("INFO", "SETTINGS", "Using default interval: 5 min")>>)
                 \o (IF wasTracking
                     THEN <<L("INFO", "APP", "Auto-resuming tracking")>> ELSE <<>>)
                 \o <<L("INFO", "TRACK", "Tracking stopped")>>
       IN /\ alive' = TRUE
          /\ history' = loaded.val
          /\ interval' = PromiseValue
          /\ isTracking' = wasTracking
          /\ autoResumed' = wasTracking
          /\ depIsTracking' = FALSE
          /\ was_tracking' = "false"
          /\ app_logs' = LogAll(app_logs, es)
          /\ location_history' = Absent
          /\ gpsChecks' = CheckerCalls
    /\ UNCHANGED <<variant, pgVars, bootVars, wdVars, natVars, qVars, intervalMs, gpsEnabled, gpsCheckResult, now, faults, trackingLock, intervalRef, lastCaptureTime, inflight,
                   pendingCb, startChecks, lastSaveOk,
                   location_history_backup, tracking_interval>>

\* Process start: module initialisation (new Logger()), first render, then the
\* mount effect (App.jsx:180-223) and the first run of the tracking effect
\* (App.jsx:341-353, isTracking still false), which run in the same flush.
\* startGPSChecker hands checkGPS to `setInterval`, the state setter, so the
\* `interval` state becomes the promise checkGPS returns; the checkGPS
\* calls it leaves awaiting their position settle in steps of their own.
AppStart ==
    /\ variant \in WebVariants
    /\ ~alive
    /\ LET loaded == loadHistory(location_history, location_history_backup)
           wasTracking == (was_tracking = "true")
           es == (IF app_logs # <<>>
                  THEN <<L("INFO", "LOGGER", "Loaded logs from storage")>> ELSE <<>>)
                 \o <<L("INFO", "APP", "Application Started")>>
                 \o loaded.logs
                 \o (IF tracking_interval # Null
                     THEN <<L("INFO", "SETTINGS", "Loaded interval")>>
                     ELSE <<L("INFO", "SETTINGS", "Using default interval: 5 min")>>)
                 \o (IF wasTracking
                     THEN <<L("INFO", "APP", "Auto-resuming tracking")>> ELSE <<>>)
                 \o <<L("INFO", "TRACK", "Tracking stopped")>>
       IN /\ alive' = TRUE
          /\ history' = loaded.val
          /\ interval' = PromiseValue
          /\ isTracking' = wasTracking
          /\ autoResumed' = wasTracking
          /\ depIsTracking' = FALSE
          /\ was_tracking' = "false"
          /\ app_logs' = LogAll(app_logs, es)
          /\ gpsChecks' = CheckerCalls
    /\ UNCHANGED <<variant, pgVars, bootVars, wdVars, natVars, qVars, intervalMs, gpsEnabled, gpsCheckResult, now, faults, trackingLock, intervalRef, lastCaptureTime, inflight,
                   pendingCb, startChecks, lastSaveOk, location_history,
                   location_history_backup, tracking_interval>>

\* The host kills the process: React state and refs are gone, localStorage stays.
Kill ==
    /\ variant \in WebVariants
    /\ alive
    /\ alive' = FALSE
    /\ isTracking' = FALSE
    /\ depIsTracking' = FALSE
    /\ history' = <<>>
    /\ interval' = "5"
    /\ trackingLock' = FALSE
    /\ intervalRef' = Null
    /\ lastCaptureTime' = 0
    /\ inflight' = <<>>
    /\ pendingCb' = FALSE
    /\ autoResumed' = FALSE
    /\ startChecks' = 0
    /\ lastSaveOk' = FALSE
    /\ intervalMs' = 0
    /\ gpsEnabled' = TRUE
    /\ gpsChecks' = 0
    /\ gpsCheckResult' = "none"
    /\ UNCHANGED <<variant, pgVars, bootVars, wdVars, natVars, qVars, now, faults, webStore>>

\* handleStartTracking up to its await (App.jsx:385-388); the button shows
\* Start only while isTracking is false (App.jsx:625)
HandleStartTracking ==
    /\ variant \in WebVariants
    /\ alive /\ ~isTracking /\ isTracking = depIsTracking
    /\ startChecks < MaxPendingStarts
    /\ startChecks' = startChecks + 1
    /\ app_logs' = LogAll(app_logs, <<L("INFO", "USER", "Start button clicked")>>)
    /\ UNCHANGED <<variant, pgVars, bootVars, wdVars, natVars, qVars, gpsEnabled, gpsChecks, gpsCheckResult, intervalMs, now, faults, alive, isTracking, depIsTracking, history, interval,
                   trackingLock, intervalRef, lastCaptureTime, inflight, pendingCb,
                   autoResumed, lastSaveOk, location_history,
                   location_history_backup, was_tracking, tracking_interval>>

\* handleStartTracking after checkPermissions resolved (App.jsx:390-396)
StartPermissionResolved(granted) ==
    /\ variant \in WebVariants
    /\ alive /\ startChecks > 0 /\ isTracking = depIsTracking
    /\ startChecks' = startChecks - 1
    /\ IF granted
       THEN /\ isTracking' = TRUE
            /\ UNCHANGED app_logs
       ELSE /\ app_logs' = LogAll(app_logs, <<L("WARN", "USER", "Requesting permission")>>)
            /\ UNCHANGED isTracking
    /\ UNCHANGED <<variant, pgVars, bootVars, wdVars, natVars, qVars, gpsEnabled, gpsChecks, gpsCheckResult, intervalMs, now, faults, alive, depIsTracking, history, interval, trackingLock,
                   intervalRef, lastCaptureTime, inflight, pendingCb, autoResumed, lastSaveOk, location_history, location_history_backup, was_tracking,
                   tracking_interval>>

\* handleStopTracking (App.jsx:403-406)
HandleStopTracking ==
    /\ variant \in WebVariants
    /\ alive /\ isTracking /\ isTracking = depIsTracking
    /\ isTracking' = FALSE
    /\ autoResumed' = FALSE
    /\ app_logs' = LogAll(app_logs, <<L("INFO", "USER", "Stop button clicked")>>)
    /\ UNCHANGED <<variant, pgVars, bootVars, wdVars, natVars, qVars, gpsEnabled, gpsChecks, gpsCheckResult, intervalMs, now, faults, alive, depIsTracking, history, interval, trackingLock,
                   intervalRef, lastCaptureTime, inflight, pendingCb, startChecks,
                   lastSaveOk, location_history, location_history_backup, was_tracking,
                   tracking_interval>>

\* The tracking effect (App.jsx:341-378) after a render in which isTracking
\* changed.  The render comes first, so a waiting interval callback has run.
TrackingEffect ==
    /\ variant \in WebVariants
    /\ alive /\ isTracking # depIsTracking /\ ~pendingCb
    /\ depIsTracking' = isTracking
    /\ LET cleared == TimerArmed
           es0 == IF cleared
                  THEN <<L("DEBUG", "TRACK", "Cleared previous interval")>> ELSE <<>>
           ref0 == IF cleared THEN Null ELSE intervalRef
       IN IF ~isTracking
          THEN /\ intervalRef' = ref0
               /\ was_tracking' = "false"
               /\ app_logs' = LogAll(app_logs,
                                 es0 \o <<L("INFO", "TRACK", "Tracking stopped")>>)
               /\ UNCHANGED <<trackingLock, inflight, pendingCb, intervalMs>>
          ELSE LET first == captureLocationSync(trackingLock, lastCaptureTime, now)
                   currentInterval ==
                       parseInt(IF tracking_interval = Null THEN "5" ELSE tracking_interval)
               IN /\ was_tracking' = "true"
                  /\ intervalMs' = Times(currentInterval, MsPerMinute)
                  /\ intervalRef' = setIntervalResult
                  /\ pendingCb' = TRUE
                  /\ trackingLock' = first.lock
                  /\ inflight' = inflight \o (IF first.requested THEN <<now>> ELSE <<>>)
                  /\ app_logs' = LogAll(app_logs,
                         es0 \o <<L("INFO", "TRACK", "Tracking started")>> \o first.logs)
    /\ UNCHANGED <<variant, pgVars, bootVars, wdVars, natVars, qVars, gpsEnabled, gpsChecks, gpsCheckResult, now, faults, alive, isTracking, history, interval,
                   lastCaptureTime, autoResumed, startChecks, lastSaveOk,
                   location_history, location_history_backup, tracking_interval>>

\* React calls the callback handed to `setInterval` (App.jsx:367-370) once, as
\* the updater of the `interval` state; what it returns becomes that state.
IntervalCallback ==
    /\ variant \in WebVariants
    /\ alive /\ pendingCb
    /\ pendingCb' = FALSE
    /\ interval' = Undefined
    /\ LET call == captureLocationSync(trackingLock, lastCaptureTime, now)
       IN /\ trackingLock' = call.lock
          /\ inflight' = inflight \o (IF call.requested THEN <<now>> ELSE <<>>)
          /\ app_logs' = LogAll(app_logs,
                            <<L("INFO", "TRACK", "Interval trigger")>> \o call.logs)
    /\ UNCHANGED <<variant, pgVars, bootVars, wdVars, natVars, qVars, gpsEnabled, gpsChecks, gpsCheckResult, intervalMs, now, faults, alive, isTracking, depIsTracking, history,
                   intervalRef, lastCaptureTime, autoResumed, startChecks,
                   lastSaveOk, location_history, location_history_backup, was_tracking,
                   tracking_interval>>

\* a captureLocation that takes the new entry back when its save failed
PositionSuccess_rollingBack(i, lat, lng, fault) ==
    /\ variant \in WebVariants
    /\ alive /\ i \in 1..Len(inflight)
    /\ fault # "none" => faults < FaultBudget
    /\ faults' = (IF fault = "none" THEN faults ELSE faults + 1)
    /\ LET newEntry == [id |-> inflight[i], latitude |-> lat, longitude |-> lng]
           dup == isDuplicate(history, newEntry)
           updated == appendEntry(newEntry, history)
           sv == saveHistory(updated, location_history, location_history_backup, fault)
       IN /\ inflight' = RemoveAt(inflight, i)
          /\ lastCaptureTime' = inflight[i]
          /\ trackingLock' = FALSE
          /\ IF dup
             THEN /\ fault = "none"
                  /\ app_logs' = LogAll(app_logs,
                        <<L("INFO", "TRACK", "Location captured"),
                          L("WARN", "TRACK", "Duplicate prevented"),
                          L("DEBUG", "TRACK", "Capture complete")>>)
                  /\ UNCHANGED <<history, location_history, location_history_backup,
                                 lastSaveOk>>
             ELSE /\ history' = (IF sv.ret THEN updated ELSE history)
                  /\ location_history' = sv.primary
                  /\ location_history_backup' = sv.backup
                  /\ lastSaveOk' = sv.ret
                  /\ app_logs' = LogAll(app_logs,
                        <<L("INFO", "TRACK", "Location captured")>> \o sv.logs
                        \o <<L("DEBUG", "TRACK", "Capture complete")>>
                        \o (IF sv.ret
                            THEN <<L("INFO", "STORAGE", "Saved records")>>
                            ELSE <<L("ERROR", "STORAGE", "Save verification failed")>>))
    /\ UNCHANGED <<variant, pgVars, bootVars, wdVars, natVars, qVars, gpsEnabled, gpsChecks, gpsCheckResult, intervalMs, now, alive, isTracking, depIsTracking, interval, intervalRef,
                   pendingCb, autoResumed, startChecks, was_tracking, tracking_interval>>

\* a captureLocation that throws the position away when tracking was stopped
\* while it waited
PositionSuccess_droppedWhenStopped(i, lat, lng, fault) ==
    /\ variant \in WebVariants
    /\ alive /\ i \in 1..Len(inflight)
    /\ fault # "none" => faults < FaultBudget
    /\ faults' = (IF fault = "none" THEN faults ELSE faults + 1)
    /\ LET newEntry == [id |-> inflight[i], latitude |-> lat, longitude |-> lng]
           dup == isDuplicate(history, newEntry)
           updated == appendEntry(newEntry, history)
           sv == saveHistory(updated, location_history, location_history_backup, fault)
       IN /\ inflight' = RemoveAt(inflight, i)
          /\ lastCaptureTime' = inflight[i]
          /\ trackingLock' = FALSE
          /\ IF dup \/ ~isTracking
             THEN /\ fault = "none"
                  /\ app_logs' = LogAll(app_logs,
                        <<L("INFO", "TRACK", "Location captured"),
                          L("WARN", "TRACK", "Duplicate prevented"),
                          L("DEBUG", "TRACK", "Capture complete")>>)
                  /\ UNCHANGED <<history, location_history, location_history_backup,
                                 lastSaveOk>>
             ELSE /\ history' = updated
                  /\ location_history' = sv.primary
                  /\ location_history_backup' = sv.backup
                  /\ lastSaveOk' = sv.ret
                  /\ app_logs' = LogAll(app_logs,
                        <<L("INFO", "TRACK", "Location captured")>> \o sv.logs
                        \o <<L("DEBUG", "TRACK", "Capture complete")>>
                        \o (IF sv.ret
                            THEN <<L("INFO", "STORAGE", "Saved records")>>
                            ELSE <<L("ERROR", "STORAGE", "Save verification failed")>>))
    /\ UNCHANGED <<variant, pgVars, bootVars, wdVars, natVars, qVars, gpsEnabled, gpsChecks, gpsCheckResult, intervalMs, now, alive, isTracking, depIsTracking, interval, intervalRef,
                   pendingCb, autoResumed, startChecks, was_tracking, tracking_interval>>

\* getCurrentPosition resolves for the i-th waiting captureLocation
\* (App.jsx:273-326, 334-337); fault is the outcome of its saveHistory call
PositionSuccess(i, lat, lng, fault) ==
    /\ variant \in WebVariants
    /\ alive /\ i \in 1..Len(inflight)
    /\ fault # "none" => faults < FaultBudget
    /\ faults' = (IF fault = "none" THEN faults ELSE faults + 1)
    /\ LET newEntry == [id |-> inflight[i], latitude |-> lat, longitude |-> lng]
           dup == isDuplicate(history, newEntry)
           updated == appendEntry(newEntry, history)
           sv == saveHistory(updated, location_history, location_history_backup, fault)
       IN /\ inflight' = RemoveAt(inflight, i)
          /\ lastCaptureTime' = inflight[i]
          /\ trackingLock' = FALSE
          /\ IF dup
             THEN /\ fault = "none"
                  /\ app_logs' = LogAll(app_logs,
                        <<L("INFO", "TRACK", "Location captured"),
                          L("WARN", "TRACK", "Duplicate prevented"),
                          L("DEBUG", "TRACK", "Capture complete")>>)
                  /\ UNCHANGED <<history, location_history, location_history_backup,
                                 lastSaveOk>>
             ELSE /\ history' = updated
                  /\ location_history' = sv.primary
                  /\ location_history_backup' = sv.backup
                  /\ lastSaveOk' = sv.ret
                  /\ app_logs' = LogAll(app_logs,
                        <<L("INFO", "TRACK", "Location captured")>> \o sv.logs
                        \o <<L("DEBUG", "TRACK", "Capture complete")>>
                        \o (IF sv.ret
                            THEN <<L("INFO", "STORAGE", "Saved records")>>
                            ELSE <<L("ERROR", "STORAGE", "Save verification failed")>>))
    /\ UNCHANGED <<variant, pgVars, bootVars, wdVars, natVars, qVars, gpsEnabled, gpsChecks, gpsCheckResult, intervalMs, now, alive, isTracking, depIsTracking, interval, intervalRef,
                   pendingCb, autoResumed, startChecks, was_tracking, tracking_interval>>

\* error.message.includes('location') || error.message.includes('denied'):
\* taken to hold of a permission denial and not of a timeout
MentionsLocation(kind) == kind = "denied"

\* getCurrentPosition rejects (App.jsx:328-337)
PositionError(i, kind) ==
    /\ variant \in WebVariants
    /\ alive /\ i \in 1..Len(inflight)
    /\ kind \in ErrorKinds
    /\ inflight' = RemoveAt(inflight, i)
    /\ trackingLock' = FALSE
    /\ gpsEnabled' = (IF MentionsLocation(kind) THEN FALSE ELSE gpsEnabled)
    /\ app_logs' = LogAll(app_logs, <<L("ERROR", "TRACK", "Capture failed"),
                                      L("DEBUG", "TRACK", "Capture complete")>>)
    /\ UNCHANGED <<variant, pgVars, bootVars, wdVars, natVars, qVars, gpsChecks, gpsCheckResult, intervalMs, now, faults, alive, isTracking, depIsTracking, history, interval,
                   intervalRef, lastCaptureTime, pendingCb, autoResumed, startChecks, lastSaveOk, location_history, location_history_backup,
                   was_tracking, tracking_interval>>

\* The outcomes of checkGPS's getCurrentPosition({ timeout: 5000 })
CheckOutcomes == {"ok"} \cup ErrorKinds

\* checkGPS after its getCurrentPosition settled (App.jsx:227-240).  The
\* mount effect runs once and calls the startGPSChecker of the first render,
\* so the gpsEnabled that checkGPS reads is the one of that render, true
\* (App.jsx:172), whatever the state holds by now.
checkGPS(outcome) ==
    /\ variant = "gps"
    /\ alive /\ gpsChecks > 0
    /\ outcome \in CheckOutcomes
    /\ gpsChecks' = gpsChecks - 1
    /\ gpsCheckResult' = outcome
    /\ LET seenGpsEnabled == TRUE
       IN IF outcome = "ok"
          THEN IF ~seenGpsEnabled
               THEN /\ gpsEnabled' = TRUE
                    /\ app_logs' = LogAll(app_logs, <<L("INFO", "GPS", "GPS enabled")>>)
               ELSE UNCHANGED <<gpsEnabled, app_logs>>
          ELSE IF MentionsLocation(outcome) /\ seenGpsEnabled
               THEN /\ gpsEnabled' = FALSE
                    /\ app_logs' = LogAll(app_logs, <<L("WARN", "GPS", "GPS disabled")>>)
               ELSE UNCHANGED <<gpsEnabled, app_logs>>
    /\ UNCHANGED <<variant, pgVars, bootVars, wdVars, natVars, qVars, intervalMs, now, faults, alive, isTracking, depIsTracking, history, interval,
                   trackingLock, intervalRef, lastCaptureTime, inflight, pendingCb, autoResumed, startChecks, lastSaveOk,
                   location_history, location_history_backup, was_tracking, tracking_interval>>

\* onChange of the interval select (App.jsx:583-592): setInterval(parseInt(value))
SelectInterval(v) ==
    /\ variant = "settings"
    /\ alive /\ isTracking = depIsTracking /\ ~pendingCb
    /\ v \in IntervalChoices /\ interval # v
    /\ interval' = v
    /\ UNCHANGED <<variant, pgVars, bootVars, wdVars, natVars, qVars, gpsEnabled, gpsChecks, gpsCheckResult, now, faults, alive, isTracking, depIsTracking,
                   history, trackingLock, intervalRef, lastCaptureTime, inflight,
                   pendingCb, autoResumed, startChecks, lastSaveOk, intervalMs, webStore>>

\* saveIntervalSetting(interval), the Save Changes button (App.jsx:416-438, 599).
\* With undefined in the `interval` state newInterval.toString() throws after
\* the first log entry.  isTracking only selects the text of the alert.
saveIntervalSetting ==
    /\ variant = "settings"
    /\ alive /\ isTracking = depIsTracking /\ ~pendingCb
    /\ IF interval = Undefined
       THEN /\ app_logs' = LogAll(app_logs, <<L("INFO", "USER", "Saving interval")>>)
            /\ UNCHANGED tracking_interval
       ELSE /\ tracking_interval' = toString(interval)
            /\ app_logs' = LogAll(app_logs,
                   <<L("INFO", "USER", "Saving interval"),
                     L("INFO", "SETTINGS", "Interval saved and verified")>>)
    /\ UNCHANGED <<variant, pgVars, bootVars, wdVars, natVars, qVars, now, faults, webMem, location_history,
                   location_history_backup, was_tracking>>

\* clearHistory that empties the history state and the primary slot only
clearHistory_primaryOnly(fault) ==
    /\ variant \in WebVariants
    /\ alive /\ history # <<>> /\ isTracking = depIsTracking
    /\ fault # "none" => faults < FaultBudget
    /\ faults' = (IF fault = "none" THEN faults ELSE faults + 1)
    /\ LET sv == saveHistory(<<>>, location_history, location_history_backup, fault)
       IN /\ history' = <<>>
          /\ location_history' = sv.primary
          /\ lastSaveOk' = sv.ret
          /\ app_logs' = LogAll(app_logs,
                            <<L("INFO", "USER", "Clearing history")>> \o sv.logs)
    /\ UNCHANGED <<variant, pgVars, bootVars, wdVars, natVars, qVars, gpsEnabled, gpsChecks, gpsCheckResult, intervalMs, now, alive, isTracking, depIsTracking, interval, trackingLock,
                   intervalRef, lastCaptureTime, inflight, pendingCb, autoResumed, startChecks, was_tracking, tracking_interval,
                   location_history_backup>>

\* clearHistory, confirmed (App.jsx:408-414); the button is disabled while the
\* history is empty (App.jsx:649)
clearHistory(fault) ==
    /\ variant \in WebVariants
    /\ alive /\ history # <<>> /\ isTracking = depIsTracking
    /\ fault # "none" => faults < FaultBudget
    /\ faults' = (IF fault = "none" THEN faults ELSE faults + 1)
    /\ LET sv == saveHistory(<<>>, location_history, location_history_backup, fault)
       IN /\ history' = <<>>
          /\ location_history' = sv.primary
          /\ location_history_backup' = sv.backup
          /\ lastSaveOk' = sv.ret
          /\ app_logs' = LogAll(app_logs,
                            <<L("INFO", "USER", "Clearing history")>> \o sv.logs)
    /\ UNCHANGED <<variant, pgVars, bootVars, wdVars, natVars, qVars, gpsEnabled, gpsChecks, gpsCheckResult, intervalMs, now, alive, isTracking, depIsTracking, interval, trackingLock,
                   intervalRef, lastCaptureTime, inflight, pendingCb, autoResumed, startChecks, was_tracking, tracking_interval>>

\* Storage faults between runs: the primary slot is cut short (a torn write)
CorruptPrimary ==
    /\ variant = "web"
    /\ ~alive /\ Truthy(location_history)
    /\ JSONparse(location_history.text).ok
    /\ faults < FaultBudget /\ faults' = faults + 1
    /\ location_history' =
           Stored(SubSeq(location_history.text, 1, Len(location_history.text) - 1))
    /\ UNCHANGED <<variant, pgVars, bootVars, wdVars, natVars, qVars, now, webMem, location_history_backup, was_tracking,
                   tracking_interval, app_logs>>

\* ... or the primary key is lost
LosePrimary ==
    /\ variant = "web"
    /\ ~alive /\ location_history.present
    /\ faults < FaultBudget /\ faults' = faults + 1
    /\ location_history' = Absent
    /\ UNCHANGED <<variant, pgVars, bootVars, wdVars, natVars, qVars, now, webMem, location_history_backup, was_tracking,
                   tracking_interval, app_logs>>

\* Time passes.  The queue build reads the clock only to stamp its points.
Tick(d) ==
    /\ d \in TickSteps
    /\ variant \notin {"queue", "watchdog", "page"}
    /\ now + d <= (IF variant = "web" THEN MaxTime
                   ELSE IF variant = "settings" THEN MaxSettingsTime
                   ELSE IF variant = "gps" THEN MaxGpsTime
                   ELSE MaxNativeTime)
    /\ now' = now + d
    /\ UNCHANGED <<variant, pgVars, bootVars, wdVars, natVars, qVars, faults, webVars>>

\* SharedPreferences.getBoolean(key, defValue)
getBoolean(prefs, key, defValue) ==
    IF key \in DOMAIN prefs THEN prefs[key] ELSE defValue

\* BootReceiver.onReceive for ACTION_BOOT_COMPLETED (ANDROID_SETUP.md:191-220),
\* after a reboot, so no process of the app runs.  With wasTracking it asks
\* for the launch activity and the service; the activity it asks for starts
\* in a step of its own (AppStart).  Nothing in the repository writes the
\* "CapacitorStorage" preferences: the page keeps was_tracking in the
\* WebView's localStorage.
BootCompleted ==
    /\ variant = "settings"
    /\ ~alive
    /\ LET wasTracking == getBoolean(CapacitorStorage, "was_tracking", FALSE)
       IN bootOutcome' = (IF wasTracking THEN "restarted" ELSE "skipped")
    /\ UNCHANGED <<variant, pgVars, now, faults, webVars, CapacitorStorage, natVars, wdVars, qVars>>

WebNext ==
    \/ BootCompleted
    \/ AppStart
    \/ Kill
    \/ HandleStartTracking
    \/ \E g \in BOOLEAN : StartPermissionResolved(g)
    \/ HandleStopTracking
    \/ TrackingEffect
    \/ IntervalCallback
    \/ \E i \in 1..Len(inflight), p \in PositionsMet, f \in StorageFaults :
          PositionSuccess(i, p[1], p[2], f)
    \/ \E i \in 1..Len(inflight), k \in ErrorsMet : PositionError(i, k)
    \/ \E o \in CheckOutcomes : checkGPS(o)
    \/ \E f \in StorageFaults : clearHistory(f)
    \/ \E v \in IntervalChoices : SelectInterval(v)
    \/ saveIntervalSetting
    \/ CorruptPrimary
    \/ LosePrimary


(* ========================== native build ============================== *)
\* limitJsonArray: scan the text counting top-level objects by brace depth and
\* cut after the maxSize-th.  String fields are taken to hold no braces.
RECURSIVE limitScan(_, _, _, _, _)
limitScan(jsonArray, maxSize, i, count, depth) ==
    IF i > Len(jsonArray) THEN jsonArray
    ELSE IF jsonArray[i].c = "{"
    THEN limitScan(jsonArray, maxSize, i + 1, count, depth + 1)
    ELSE IF jsonArray[i].c = "}"
    THEN LET d == depth - 1
             n == IF d = 0 THEN count + 1 ELSE count
         IN IF d = 0 /\ n >= maxSize
            THEN SubSeq(jsonArray, 1, i) \o <<P("]")>>
            ELSE limitScan(jsonArray, maxSize, i + 1, n, d)
    ELSE limitScan(jsonArray, maxSize, i + 1, count, depth)

\* limitJsonArray that never cuts
limitJsonArray_noCut(jsonArray, maxSize) == jsonArray

limitJsonArray(jsonArray, maxSize) == limitScan(jsonArray, maxSize, 1, 0, 0)

EmptyArray == <<P("["), P("]")>>

\* saveToLocalStorage: the new value of location_history
saveToLocalStorage(slot, newEntry) ==
    LET historyJson == IF slot.present THEN slot.text ELSE EmptyArray
        item == <<P("{"), Body(newEntry), P("}")>>
        joined == IF historyJson = EmptyArray
                  THEN <<P("[")>> \o item \o <<P("]")>>
                  ELSE <<P("[")>> \o item \o <<P(",")>> \o Tail(historyJson)
    IN Stored(limitJsonArray(joined, HistoryCapacity))

\* the builds that run LocationTrackerService
NativeVariants == {"native", "watchdog"}

\* whether doPost throws: met in the watchdog build only
ServerThrowsMet == IF variant = "watchdog" THEN BOOLEAN ELSE {FALSE}

\* whether saveToLocalStorage throws: met in the watchdog build only
StoreThrowsMet == IF variant = "watchdog" THEN BOOLEAN ELSE {FALSE}

\* locations the service receives in one behaviour
CaptureBudget == IF variant = "watchdog" THEN MaxWatchCaptures ELSE MaxCaptures

NativeInit ==
    /\ svcRunning = FALSE
    /\ registered = {}
    /\ checkTasks = 0
    /\ posts = {}
    /\ restartAlarm = 0
    /\ stickyPending = FALSE
    /\ taskPresent = TRUE
    /\ uiTracking = FALSE
    /\ userStopped = FALSE
    /\ captured = 0
    /\ delivered = {}
    /\ postResult = "none"
    /\ storeFailed = FALSE
    /\ sheetRows = {}
    /\ prefs_location_history = Absent
    /\ last_upload_time = 0

\* onCreate when no instance exists, then onStartCommand: startLocationUpdates
\* with the providers enabled at that moment, and start7HourCheck
ServiceStarted(enabled) ==
    /\ checkTasks < MaxCheckTasks
    /\ svcRunning' = TRUE
    /\ registered' = registered \cup enabled
    /\ checkTasks' = checkTasks + 1
    /\ stickyPending' = FALSE

\* onDestroy: removeUpdates(this) and executor.shutdown()
ServiceDestroyed ==
    /\ svcRunning' = FALSE
    /\ registered' = {}
    /\ checkTasks' = 0
    /\ stickyPending' = FALSE

\* LocationServicePlugin.startService, called by the page's Start button
startService(enabled) ==
    /\ variant = "native"
    /\ taskPresent /\ ~uiTracking
    /\ uiTracking' = TRUE
    /\ userStopped' = FALSE
    /\ ServiceStarted(enabled)
    /\ UNCHANGED <<variant, pgVars, bootVars, wdVars, now, faults, webVars, qVars, postResult, storeFailed, sheetRows, posts, restartAlarm, taskPresent,
                   captured, delivered, prefs_location_history, last_upload_time,
                   sheets_url>>

\* LocationServicePlugin.stopService, called by the page's Stop button
stopService ==
    /\ variant = "native"
    /\ taskPresent /\ uiTracking
    /\ uiTracking' = FALSE
    /\ userStopped' = TRUE
    /\ ServiceDestroyed
    /\ UNCHANGED <<variant, pgVars, bootVars, wdVars, now, faults, webVars, qVars, postResult, storeFailed, sheetRows, posts, restartAlarm, taskPresent,
                   captured, delivered, prefs_location_history, last_upload_time,
                   sheets_url>>

\* The user swipes the app from recents: the task goes, the running service
\* gets onTaskRemoved and sets the restart alarm
onTaskRemoved ==
    /\ variant = "native"
    /\ taskPresent /\ svcRunning
    /\ taskPresent' = FALSE
    /\ uiTracking' = FALSE
    /\ restartAlarm' = now + RestartDelayMs
    /\ UNCHANGED <<variant, pgVars, bootVars, wdVars, now, faults, webVars, qVars, postResult, storeFailed, sheetRows, svcRunning, registered, checkTasks,
                   posts, stickyPending, userStopped, captured, delivered,
                   prefs_location_history, last_upload_time, sheets_url>>

\* The user opens the app again: a fresh page, isTracking false
LaunchApp ==
    /\ variant = "native"
    /\ ~taskPresent
    /\ taskPresent' = TRUE
    /\ UNCHANGED <<variant, pgVars, bootVars, wdVars, now, faults, webVars, qVars, postResult, storeFailed, sheetRows, svcRunning, registered, checkTasks,
                   posts, restartAlarm, stickyPending, uiTracking, userStopped,
                   captured, delivered, prefs_location_history, last_upload_time,
                   sheets_url>>

\* AlarmManager delivers the restart intent at or after its due time
AlarmFires(enabled) ==
    /\ variant = "native"
    /\ restartAlarm # 0 /\ now >= restartAlarm
    /\ restartAlarm' = 0
    /\ ServiceStarted(enabled)
    /\ UNCHANGED <<variant, pgVars, bootVars, wdVars, now, faults, webVars, qVars, postResult, storeFailed, sheetRows, posts, taskPresent, uiTracking,
                   userStopped, captured, delivered, prefs_location_history,
                   last_upload_time, sheets_url>>

\* The system kills the process; START_STICKY makes it owe a restart
SystemKill ==
    /\ variant = "native"
    /\ svcRunning
    /\ svcRunning' = FALSE
    /\ registered' = {}
    /\ checkTasks' = 0
    /\ posts' = {}
    /\ stickyPending' = TRUE
    /\ taskPresent' = FALSE
    /\ uiTracking' = FALSE
    /\ UNCHANGED <<variant, pgVars, bootVars, wdVars, now, faults, webVars, qVars, postResult, storeFailed, sheetRows, restartAlarm, userStopped, captured,
                   delivered, prefs_location_history, last_upload_time, sheets_url>>

\* ... and restarts the service with a null intent
StickyRestart(enabled) ==
    /\ variant = "native"
    /\ stickyPending /\ ~svcRunning
    /\ ServiceStarted(enabled)
    /\ UNCHANGED <<variant, pgVars, bootVars, wdVars, now, faults, webVars, qVars, postResult, storeFailed, sheetRows, posts, restartAlarm, taskPresent,
                   uiTracking, userStopped, captured, delivered,
                   prefs_location_history, last_upload_time, sheets_url>>

\* onLocationChanged (LocationTrackerService.java:145-175): saveToLocalStorage,
\* then postToSheets starts its thread, both in one try block.  With
\* storeThrows the call of saveToLocalStorage throws before its putString
\* and the catch logs "Failed to save location".
onLocationChanged(provider, lat, lng, storeThrows) ==
    /\ variant \in NativeVariants
    /\ svcRunning /\ provider \in registered
    /\ captured < CaptureBudget
    /\ captured' = captured + 1
    /\ storeFailed' = storeThrows
    /\ IF storeThrows
       THEN UNCHANGED <<prefs_location_history, posts>>
       ELSE /\ prefs_location_history' =
                   saveToLocalStorage(prefs_location_history,
                                      [id |-> now, latitude |-> lat, longitude |-> lng])
            /\ posts' = posts \cup {captured + 1}
    /\ UNCHANGED <<variant, pgVars, bootVars, wdVars, now, faults, webVars, qVars, postResult, sheetRows,
                   svcRunning, registered, checkTasks,
                   restartAlarm, stickyPending, taskPresent, uiTracking, userStopped,
                   delivered, last_upload_time, sheets_url>>

\* doPost of the Apps Script endpoint for the point of capture k
\* (google-apps-script.js:18-59, part_003:15-63).  The whole body is one
\* try: when waitLock, JSON.parse, the field validation or appendRow
\* throws, no row is appended and the catch returns a text output, which
\* the platform serves like the one of a success.
doPost(rows, k, throws) ==
    IF throws THEN rows ELSE rows \cup {k}

\* postToSheets that takes only a 200 for a success
PostThreadRun_only200(k, outcome) ==
    /\ variant \in NativeVariants
    /\ k \in posts
    /\ posts' = posts \ {k}
    /\ postResult' = (IF sheets_url = "" THEN postResult ELSE outcome)
    /\ IF sheets_url # "" /\ outcome = "200"
       THEN /\ last_upload_time' = now
            /\ delivered' = delivered \cup {k}
       ELSE UNCHANGED <<last_upload_time, delivered>>
    /\ IF sheets_url # "" /\ outcome \in {"200", "302"}
       THEN \E throws \in ServerThrowsMet : sheetRows' = doPost(sheetRows, k, throws)
       ELSE UNCHANGED sheetRows
    /\ UNCHANGED <<variant, pgVars, bootVars, wdVars, now, faults, webVars, qVars, svcRunning, registered, checkTasks,
                   restartAlarm, stickyPending, taskPresent, uiTracking, userStopped,
                   captured, storeFailed, prefs_location_history, sheets_url>>

\* The thread of postToSheets for capture k runs to its end
\* (LocationTrackerService.java:205-259).  With no sheets_url it returns
\* before any request is made; outcome is how the request ends otherwise.
\* A response of 200 or 302 comes from the script, whose doPost threw or did
\* not; a request that ends with another code or an exception is taken not
\* to have reached the script.
PostThreadRun(k, outcome) ==
    /\ variant \in NativeVariants
    /\ k \in posts
    /\ posts' = posts \ {k}
    /\ postResult' = (IF sheets_url = "" THEN postResult ELSE outcome)
    /\ IF sheets_url # "" /\ outcome \in {"200", "302"}
       THEN /\ last_upload_time' = now
            /\ delivered' = delivered \cup {k}
       ELSE UNCHANGED <<last_upload_time, delivered>>
    /\ IF sheets_url # "" /\ outcome \in {"200", "302"}
       THEN \E throws \in ServerThrowsMet : sheetRows' = doPost(sheetRows, k, throws)
       ELSE UNCHANGED sheetRows
    /\ UNCHANGED <<variant, pgVars, bootVars, wdVars, now, faults, webVars, qVars, svcRunning, registered, checkTasks,
                   restartAlarm, stickyPending, taskPresent, uiTracking, userStopped,
                   captured, storeFailed, prefs_location_history, sheets_url>>

NativeNext ==
    \/ \E en \in SUBSET Providers : startService(en)
    \/ stopService
    \/ onTaskRemoved
    \/ LaunchApp
    \/ \E en \in SUBSET Providers : AlarmFires(en)
    \/ SystemKill
    \/ \E en \in SUBSET Providers : StickyRestart(en)
    \/ \E pr \in Providers, p \in NativePositions, t \in StoreThrowsMet :
          onLocationChanged(pr, p[1], p[2], t)
    \/ \E k \in posts, o \in PostOutcomes : PostThreadRun(k, o)

(* ========================== watchdog build ============================ *)
NoCheck == [hours |-> -1, alert |-> FALSE]

WatchdogInit ==
    /\ checksDue = 0
    /\ lastCheck = NoCheck
    /\ alertsInPeriod = 0
    /\ createdAt = 0

\* An intent reaches the service, whoever sent it (the plugin's startService,
\* the restart alarm, a START_STICKY restart): onCreate when no instance
\* exists, then onStartCommand.  start7HourCheck schedules one more task
\* at a fixed rate of one hour with initial delay 0.
onStartCommand(enabled) ==
    /\ variant = "watchdog"
    /\ ServiceStarted(enabled)
    /\ checksDue' = checksDue + 1
    /\ createdAt' = (IF svcRunning THEN createdAt ELSE now)
    /\ UNCHANGED <<variant, pgVars, bootVars, now, faults, webVars, qVars, lastCheck, alertsInPeriod,
                   posts, restartAlarm, taskPresent, uiTracking, userStopped,
                   captured, delivered, postResult, storeFailed, sheetRows,
                   prefs_location_history, last_upload_time, sheets_url>>

\* a run of the task that also stamps last_upload_time
CheckRun_stamping ==
    /\ variant = "watchdog"
    /\ svcRunning /\ checksDue > 0
    /\ LET lastUpload == IF last_upload_time = 0 THEN now ELSE last_upload_time
           hoursSinceUpload == (now - lastUpload) \div MsPerHour
           warn == hoursSinceUpload >= StaleHours
       IN /\ lastCheck' = [hours |-> hoursSinceUpload, alert |-> warn]
          /\ alertsInPeriod' = alertsInPeriod + (IF warn THEN 1 ELSE 0)
    /\ checksDue' = checksDue - 1
    /\ last_upload_time' = now
    /\ UNCHANGED <<variant, pgVars, bootVars, now, faults, webVars, qVars, createdAt, svcRunning,
                   registered, checkTasks, posts, restartAlarm, stickyPending,
                   taskPresent, uiTracking, userStopped, captured, delivered,
                   postResult, storeFailed, sheetRows, prefs_location_history, sheets_url>>

\* One run of the task scheduled by start7HourCheck
\* (LocationTrackerService.java:284-295).  getLong's default is evaluated at
\* the call: with no last_upload_time stored, lastUpload is the current time.
CheckRun ==
    /\ variant = "watchdog"
    /\ svcRunning /\ checksDue > 0
    /\ LET lastUpload == IF last_upload_time = 0 THEN now ELSE last_upload_time
           hoursSinceUpload == (now - lastUpload) \div MsPerHour
           warn == hoursSinceUpload >= StaleHours
       IN /\ lastCheck' = [hours |-> hoursSinceUpload, alert |-> warn]
          /\ alertsInPeriod' = alertsInPeriod + (IF warn THEN 1 ELSE 0)
    /\ checksDue' = checksDue - 1
    /\ UNCHANGED <<variant, pgVars, bootVars, now, faults, webVars, qVars, natVars, createdAt>>

\* An hour passes: every scheduled task is due once more.  The runs that
\* were due have been made; a run takes no time against the period.
HourPasses ==
    /\ variant = "watchdog"
    /\ checksDue = 0
    /\ now + MsPerHour <= StartTime + MaxWatchHours * MsPerHour
    /\ now' = now + MsPerHour
    /\ checksDue' = checkTasks
    /\ alertsInPeriod' = 0
    /\ UNCHANGED <<variant, pgVars, bootVars, faults, webVars, qVars, natVars, lastCheck, createdAt>>

WatchdogNext ==
    \/ \E en \in WatchProviders : onStartCommand(en)
    \/ CheckRun
    \/ HourPasses

(* ============================ page build ============================== *)
\* window.trackingInterval before any assignment: clearInterval(undefined)
\* clears nothing, and setInterval returns positive handles
NoHandle == 0

PageInit ==
    /\ pgTracking = FALSE
    /\ pgPermWaits = 0
    /\ pgSvcWaits = 0
    /\ pgTimers = {}
    /\ trackingInterval = NoHandle
    /\ pgHandles = 0

\* The button is pressed while it reads START TRACKING (part_005:283):
\* startTracking up to `await Geolocation.checkPermissions()`
pgStartClicked ==
    /\ variant = "page"
    /\ ~pgTracking
    /\ pgHandles + pgPermWaits + pgSvcWaits < MaxPageStarts
    /\ pgPermWaits' = pgPermWaits + 1
    /\ UNCHANGED <<variant, now, faults, webVars, bootVars, natVars, wdVars, qVars,
                   pgTracking, pgSvcWaits, pgTimers, trackingInterval, pgHandles>>

\* startTracking from the permission answer up to
\* `await LocationService.startService()` (part_005:45-54); with ok false
\* checkPermissions or requestPermissions rejected and the outer catch logs
pgPermissionSettled(ok) ==
    /\ variant = "page"
    /\ pgPermWaits > 0
    /\ pgPermWaits' = pgPermWaits - 1
    /\ IF ok
       THEN /\ pgTracking' = TRUE
            /\ pgSvcWaits' = pgSvcWaits + 1
       ELSE UNCHANGED <<pgTracking, pgSvcWaits>>
    /\ UNCHANGED <<variant, now, faults, webVars, bootVars, natVars, wdVars, qVars,
                   pgTimers, trackingInterval, pgHandles>>

\* startTracking after startService settled, resolved or rejected
\* (part_005:55-66): the first captureLocation, then
\* window.trackingInterval = setInterval(captureLocation, 60000)
pgServiceSettled ==
    /\ variant = "page"
    /\ pgSvcWaits > 0
    /\ pgSvcWaits' = pgSvcWaits - 1
    /\ pgHandles' = pgHandles + 1
    /\ pgTimers' = pgTimers \cup {pgHandles + 1}
    /\ trackingInterval' = pgHandles + 1
    /\ UNCHANGED <<variant, now, faults, webVars, bootVars, natVars, wdVars, qVars,
                   pgTracking, pgPermWaits>>

\* The button is pressed while it reads STOP TRACKING: stopTracking
\* (part_005:72-82), clearInterval(window.trackingInterval) first
pgStopClicked ==
    /\ variant = "page"
    /\ pgTracking
    /\ pgTimers' = pgTimers \ {trackingInterval}
    /\ pgTracking' = FALSE
    /\ UNCHANGED <<variant, now, faults, webVars, bootVars, natVars, wdVars, qVars,
                   pgPermWaits, pgSvcWaits, trackingInterval, pgHandles>>

PageNext ==
    \/ pgStartClicked
    \/ \E ok \in BOOLEAN : pgPermissionSettled(ok)
    \/ pgServiceSettled
    \/ pgStopClicked

(* =========================== queue build ============================== *)
\* a captured point; id stands for its `time` stamp
Point(n) == [id |-> n, latitude |-> 0, longitude |-> 0]

\* `if (saved) setX(JSON.parse(saved))` of the mount effect
loadSaved(slot) == IF Truthy(slot) THEN JSONparse(slot.text).val ELSE <<>>

Ids(s) == {s[i].id : i \in 1..Len(s)}

QueueInit ==
    /\ qAlive = FALSE
    /\ qIsTracking = FALSE
    /\ queue = <<>>
    /\ qHistory = <<>>
    /\ isOnline = TRUE
    /\ qTimer = FALSE
    /\ qRequests = 0
    /\ syncs = <<>>
    /\ qPoints = 0
    /\ qDelivered = {}
    /\ sinkOrder = <<>>
    /\ offline_queue = Absent
    /\ loc_history = Absent

\* Process start: first render and the mount effect (App.jsx:1050-1074)
QAppStart(online) ==
    /\ variant = "queue"
    /\ ~qAlive
    /\ qAlive' = TRUE
    /\ isOnline' = online
    /\ queue' = loadSaved(offline_queue)
    /\ qHistory' = loadSaved(loc_history)
    /\ UNCHANGED <<variant, pgVars, bootVars, wdVars, now, faults, webVars, natVars, sinkOrder, qIsTracking, qTimer,
                   qRequests, syncs, qPoints, qDelivered, offline_queue, loc_history>>

\* The host kills the process
QKill ==
    /\ variant = "queue"
    /\ qAlive
    /\ qAlive' = FALSE
    /\ qIsTracking' = FALSE
    /\ queue' = <<>>
    /\ qHistory' = <<>>
    /\ qTimer' = FALSE
    /\ qRequests' = 0
    /\ syncs' = <<>>
    /\ UNCHANGED <<variant, pgVars, bootVars, wdVars, now, faults, webVars, natVars, sinkOrder, isOnline, qPoints,
                   qDelivered, offline_queue, loc_history>>

\* handleStart / the toggle button, with the tracking effect it causes
\* (App.jsx:1077-1121): track() at once and a 5 minute timer
handleStart ==
    /\ variant = "queue"
    /\ qAlive /\ ~qIsTracking
    /\ qRequests < MaxRequests
    /\ qIsTracking' = TRUE
    /\ qTimer' = TRUE
    /\ qRequests' = qRequests + 1
    /\ UNCHANGED <<variant, pgVars, bootVars, wdVars, now, faults, webVars, natVars, sinkOrder, qAlive, queue, qHistory,
                   isOnline, syncs, qPoints, qDelivered, offline_queue, loc_history>>

\* handleStop / the toggle button, with the effect's cleanup (clearInterval)
handleStop ==
    /\ variant = "queue"
    /\ qAlive /\ qIsTracking
    /\ qIsTracking' = FALSE
    /\ qTimer' = FALSE
    /\ UNCHANGED <<variant, pgVars, bootVars, wdVars, now, faults, webVars, natVars, sinkOrder, qAlive, queue, qHistory,
                   isOnline, qRequests, syncs, qPoints, qDelivered, offline_queue,
                   loc_history>>

\* the timer calls track()
qTimerFires ==
    /\ variant = "queue"
    /\ qAlive /\ qTimer
    /\ qRequests < MaxRequests
    /\ qRequests' = qRequests + 1
    /\ UNCHANGED <<variant, pgVars, bootVars, wdVars, now, faults, webVars, natVars, sinkOrder, qAlive, qIsTracking, queue,
                   qHistory, isOnline, qTimer, syncs, qPoints, qDelivered,
                   offline_queue, loc_history>>

\* the success callback of track (App.jsx:1086-1111)
track ==
    /\ variant = "queue"
    /\ qAlive /\ qRequests > 0
    /\ qPoints < MaxPoints
    /\ LET point == Point(qPoints + 1)
           nextQueue == Append(queue, point)
           nextHistory == appendEntry(point, qHistory)
       IN /\ qPoints' = qPoints + 1
          /\ qRequests' = qRequests - 1
          /\ queue' = nextQueue
          /\ offline_queue' = Stored(JSONstringify(nextQueue))
          /\ qHistory' = nextHistory
          /\ loc_history' = Stored(JSONstringify(nextHistory))
    /\ UNCHANGED <<variant, pgVars, bootVars, wdVars, now, faults, webVars, natVars, sinkOrder, qAlive, qIsTracking,
                   isOnline, qTimer, syncs, qDelivered>>

\* the error callback of track
qTrackError ==
    /\ variant = "queue"
    /\ qAlive /\ qRequests > 0
    /\ qRequests' = qRequests - 1
    /\ UNCHANGED <<variant, pgVars, bootVars, wdVars, now, faults, webVars, natVars, sinkOrder, qAlive, qIsTracking, queue,
                   qHistory, isOnline, qTimer, syncs, qPoints, qDelivered,
                   offline_queue, loc_history>>

\* handleNet: an online / offline event
handleNet(online) ==
    /\ variant = "queue"
    /\ qAlive /\ online # isOnline
    /\ isOnline' = online
    /\ UNCHANGED <<variant, pgVars, bootVars, wdVars, now, faults, webVars, natVars, sinkOrder, qAlive, qIsTracking, queue,
                   qHistory, qTimer, qRequests, syncs, qPoints, qDelivered,
                   offline_queue, loc_history>>

\* handleSync up to its await (App.jsx:1137-1143): one addDoc per queued item
handleSync ==
    /\ variant = "queue"
    /\ qAlive /\ queue # <<>> /\ isOnline
    /\ Len(syncs) < MaxSyncs
    /\ syncs' = Append(syncs, queue)
    /\ UNCHANGED <<variant, pgVars, bootVars, wdVars, now, faults, webVars, natVars, sinkOrder, qAlive, qIsTracking, queue,
                   qHistory, isOnline, qTimer, qRequests, qPoints, qDelivered,
                   offline_queue, loc_history>>

\* the orders in which writes of some of the items S can reach the sink
Arrivals(S) ==
    {o \in UNION {[1..n -> S] : n \in 0..Cardinality(S)} :
        \A a, b \in DOMAIN o : a # b => o[a] # o[b]}

\* Promise.all settles for the i-th waiting handleSync (App.jsx:1143-1149).
\* The addDoc calls run side by side: order lists the items whose write
\* succeeded, in the order the sink got them.
SyncSettled(i, order) ==
    /\ variant = "queue"
    /\ qAlive /\ i \in 1..Len(syncs)
    /\ order \in Arrivals(Ids(syncs[i]))
    /\ LET written == {order[n] : n \in DOMAIN order}
       IN /\ syncs' = RemoveAt(syncs, i)
          /\ qDelivered' = qDelivered \cup written
          /\ sinkOrder' = order
          /\ IF written = Ids(syncs[i])
             THEN /\ queue' = <<>>
                  /\ offline_queue' = Absent
             ELSE UNCHANGED <<queue, offline_queue>>
    /\ UNCHANGED <<variant, pgVars, bootVars, wdVars, now, faults, webVars, natVars, qAlive, qIsTracking,
                   qHistory, isOnline, qTimer, qRequests, qPoints, loc_history>>

\* clearHistory, confirmed (App.jsx:1153-1158)
qClearHistory ==
    /\ variant = "queue"
    /\ qAlive /\ qHistory # <<>>
    /\ qHistory' = <<>>
    /\ loc_history' = Absent
    /\ UNCHANGED <<variant, pgVars, bootVars, wdVars, now, faults, webVars, natVars, sinkOrder, qAlive, qIsTracking, queue,
                   isOnline, qTimer, qRequests, syncs, qPoints, qDelivered,
                   offline_queue>>

QueueNext ==
    \/ \E o \in BOOLEAN : QAppStart(o)
    \/ QKill
    \/ handleStart
    \/ handleStop
    \/ qTimerFires
    \/ track
    \/ qTrackError
    \/ \E o \in BOOLEAN : handleNet(o)
    \/ handleSync
    \/ \E i \in 1..Len(syncs), o \in Arrivals(1..MaxPoints) : SyncSettled(i, o)
    \/ qClearHistory

Variants == {"web", "settings", "gps", "native", "watchdog", "page", "queue"}

Init ==
    /\ variant \in Variants
    /\ now = StartTime
    /\ faults = 0
    /\ WebInit
    /\ NativeInit
    /\ WatchdogInit
    /\ PageInit
    /\ QueueInit
    /\ sheets_url \in (IF variant \in NativeVariants THEN {"", "url"} ELSE {""})

Next ==
    \/ WebNext
    \/ NativeNext
    \/ WatchdogNext
    \/ PageNext
    \/ QueueNext
    \/ \E d \in TickSteps : Tick(d)

Spec == Init /\ [][Next]_vars

(* ============================== claims ================================ *)
LastLog == IF app_logs = <<>> THEN "" ELSE app_logs[Len(app_logs)].message

\* what a slot holds, read as a log; <<>> when absent or unreadable
SlotLog(slot) ==
    IF Truthy(slot) /\ JSONparse(slot.text).ok THEN JSONparse(slot.text).val ELSE <<>>

TimerTriggerDropped == alive /\ alive' /\ pendingCb /\ ~pendingCb' /\ trackingLock
\* a step in which the tracking effect starts tracking and its immediate
\* captureLocation call finds trackingLock held
ImmediateTriggerDropped ==
    alive /\ alive' /\ isTracking /\ ~depIsTracking /\ depIsTracking' /\ trackingLock

\* C2 (as amended): at most one captureLocation is between taking and
\* releasing trackingLock, and a trigger that finds the lock held requests no
\* position and changes neither the history, nor lastCaptureTime, nor any
\* persisted key other than the logger's app_logs (the tracking effect that
\* makes the immediate call writes was_tracking itself).
C2_SingleFlight ==
    /\ [](Len(inflight) <= 1 /\ (trackingLock <=> Len(inflight) = 1))
    /\ [][TimerTriggerDropped =>
            UNCHANGED <<inflight, trackingLock, history, lastCaptureTime,
                        location_history, location_history_backup, was_tracking,
                        tracking_interval>>]_vars
    /\ [][ImmediateTriggerDropped =>
            UNCHANGED <<inflight, trackingLock, history, lastCaptureTime,
                        location_history, location_history_backup,
                        tracking_interval>>]_vars

\* C2 witness: a trigger has just been dropped while a capture is in flight
C2_Witness ==
    /\ alive /\ trackingLock /\ Len(inflight) = 1
    /\ LastLog = "Skipped: already capturing"

\* C2 as stated: the dropped trigger changes no persisted key at all
C2_Original ==
    [][TimerTriggerDropped =>
         UNCHANGED <<inflight, trackingLock, history, lastCaptureTime, webStore>>]_vars

\* C3 as stated: every accepted capture is, at every later moment, queued for
\* upload or confirmed delivered.  The native service keeps no queue; a
\* capture counts as pending while its postToSheets thread runs.
C3_Original ==
    /\ \A k \in 1..captured : k \in posts \/ k \in delivered
    /\ \A k \in 1..qPoints :
           k \in Ids(loadSaved(offline_queue)) \/ k \in qDelivered

\* C4 as stated: an entry leaves the queue, in memory or in offline_queue,
\* only after a delivery attempt for that entry succeeded.
C4_Original ==
    [][/\ qAlive /\ qAlive' =>
            \A k \in Ids(queue) : k \in Ids(queue') \/ k \in qDelivered'
       /\ \A k \in Ids(loadSaved(offline_queue)) :
            k \in Ids(loadSaved(offline_queue')) \/ k \in qDelivered']_vars

\* C5 as stated: any two entries of the history are at least the gap apart in
\* time or more than eps apart in a coordinate.
C5_Original ==
    \A i, j \in 1..Len(history) :
        i # j =>
            \/ Abs(history[i].id - history[j].id) >= MinGapMs
            \/ Abs(history[i].latitude - history[j].latitude) > Eps
            \/ Abs(history[i].longitude - history[j].longitude) > Eps

\* C6 as stated: no trigger is let through fewer than 10 s after the last
\* accepted capture, so accepted captures are at least 10 s apart.
C6_Original ==
    /\ \A k \in 1..Len(inflight) :
           history # <<>> => inflight[k] - history[1].id >= MinGapMs
    /\ \A i, j \in 1..Len(history) :
           i # j => Abs(history[i].id - history[j].id) >= MinGapMs

\* C7 as stated: once a run that started with was_tracking = 'true' has run
\* its tracking effect, the periodic timer is armed.
C7_Original ==
    (alive /\ autoResumed /\ isTracking /\ depIsTracking) => TimerArmed

\* C8 as stated: after a user's stop nothing resumes capturing until the user
\* starts again: the native service has no provider registered, and the web
\* app issues a position request only with was_tracking set to 'true'.
C8_Original ==
    /\ [](userStopped => (~svcRunning /\ registered = {}))
    /\ [][Len(inflight') > Len(inflight) => was_tracking' = "true"]_vars

\* what C9 says loadHistory gives for the slots as they are
C9_Expected ==
    IF Truthy(location_history) /\ JSONparse(location_history.text).ok
    THEN JSONparse(location_history.text).val
    ELSE SlotLog(location_history_backup)

\* C9 as stated: loadHistory gives the primary slot's log when that slot is
\* present and parseable, the backup slot's log when the primary is absent or
\* corrupt, and the empty log when both are absent.
C9_Original == [][(~alive /\ alive') => history' = C9_Expected]_vars

\* a step that calls saveHistory: an accepted capture or clearHistory
SaveStep == alive /\ alive' /\ history' # history

\* C10: after an accepted capture whose saveHistory gave true, the primary
\* and the backup slot both hold the serialisation of the in-memory history;
\* and whenever saveHistory gives true the primary slot holds the data.
C10_SaveVerified ==
    [][(SaveStep /\ lastSaveOk') =>
         /\ location_history' = Stored(JSONstringify(history'))
         /\ (Len(inflight') < Len(inflight) =>
                location_history_backup' = Stored(JSONstringify(history')))]_vars

\* C10 witness: a capture has been accepted and its save verified
C10_Witness ==
    /\ alive /\ lastSaveOk /\ history # <<>>
    /\ LastLog = "Saved records"
    /\ location_history = Stored(JSONstringify(history))
    /\ location_history_backup = location_history

\* C11: loadHistory is idempotent and read-only: the process start that calls
\* it leaves the primary and the backup slot as they were, and a second call
\* right after it, on the slots as the first left them, gives the same log
\* the first one put into the history state.
C11_LoadIdempotent ==
    [][(~alive /\ alive') =>
         /\ location_history' = location_history
         /\ location_history_backup' = location_history_backup
         /\ loadHistory(location_history', location_history_backup').val = history'
         /\ loadHistory(location_history', location_history_backup').val
              = loadHistory(location_history, location_history_backup).val]_vars

\* C11 witness: a run has just loaded a non-empty log from storage (no
\* capture or clear has happened in it) and loading again gives the same log
C11_Witness ==
    /\ alive /\ history # <<>> /\ lastCaptureTime = 0 /\ inflight = <<>>
    /\ history = loadHistory(location_history, location_history_backup).val

\* a step of clearHistory: the history state changes and no capture ends
ClearStep == SaveStep /\ Len(inflight') = Len(inflight)

C13_Original ==
    /\ []((alive /\ isTracking /\ depIsTracking) => TimerArmed)
    /\ [][(alive /\ ~isTracking /\ ~depIsTracking /\ ~pendingCb) =>
            Len(inflight') <= Len(inflight)]_vars

\* a step in which the position of a capture in flight arrives although
\* tracking has been stopped meanwhile
ArrivalWhileStopped ==
    /\ alive /\ alive' /\ ~isTracking
    /\ Len(inflight') < Len(inflight)
    /\ lastCaptureTime' # lastCaptureTime

\* C14: once a stop has taken effect no timer is armed and no timer callback
\* waits, and a capture that was in flight at the stop is not aborted: when
\* its position arrives it is handled as any other, put at the head of the
\* history and saved to both slots (saveHistory giving false only when a
\* write threw), and left out only when the duplicate check rejects it.
C14_StopKeepsCapture ==
    /\ []((alive /\ ~isTracking /\ ~depIsTracking) => (~TimerArmed /\ ~pendingCb))
    /\ [][ArrivalWhileStopped =>
            \/ /\ history' # history
               /\ history'[1].id = lastCaptureTime'
               /\ history' = appendEntry(history'[1], history)
               /\ IF lastSaveOk'
                  THEN /\ location_history' = Stored(JSONstringify(history'))
                       /\ location_history_backup' = Stored(JSONstringify(history'))
                  ELSE faults' > faults
            \/ /\ history' = history
               /\ \E p \in Positions :
                    isDuplicate(history, [id |-> lastCaptureTime',
                                          latitude |-> p[1], longitude |-> p[2]])]_vars

\* C14 witness: tracking is stopped and the position of the capture that was
\* in flight has just arrived, been put at the head of the history and saved
C14_Witness ==
    /\ alive /\ ~isTracking /\ ~depIsTracking /\ inflight = <<>>
    /\ LastLog = "Saved records"
    /\ history # <<>> /\ history[1].id = lastCaptureTime
    /\ location_history = Stored(JSONstringify(history))
    /\ location_history_backup = Stored(JSONstringify(history))

\* a step in which saveIntervalSetting stores a new interval while tracking runs
SaveWhileTracking ==
    /\ alive /\ alive' /\ isTracking /\ depIsTracking
    /\ tracking_interval' # tracking_interval

\* C15 as stated: saving a new interval while tracking runs leaves a timer
\* armed at the new cadence and leaves the capture in flight alone.
C15_Original ==
    [][SaveWhileTracking =>
         /\ TimerArmed'
         /\ intervalMs' = Times(parseInt(tracking_interval'), MsPerMinute)
         /\ inflight' = inflight /\ trackingLock' = trackingLock]_vars

\* a step of saveIntervalSetting
SaveIntervalStep ==
    /\ alive /\ alive' /\ app_logs' # app_logs
    /\ LastLog' \in {"Saving interval", "Interval saved and verified"}

\* a step in which the tracking effect starts tracking
StartEffectStep == alive /\ alive' /\ isTracking /\ ~depIsTracking /\ depIsTracking'

\* C16 as stated: saveIntervalSetting leaves the interval it was given in
\* tracking_interval, and every start of tracking, a start after a process
\* restart included, arms a timer whose period is the interval saved last.
C16_Original ==
    /\ [][SaveIntervalStep =>
            /\ tracking_interval' = toString(interval)
            /\ parseInt(tracking_interval') # NaN]_vars
    /\ [][StartEffectStep =>
            /\ TimerArmed'
            /\ intervalMs' # NaN
            /\ intervalMs' = Times(parseInt(IF tracking_interval = Null THEN "5"
                                            ELSE tracking_interval), MsPerMinute)]_vars

\* a step in which a capture fails because the location permission is denied
\* (the first such failure of a run: it takes gpsEnabled from true to false)
DeniedStep ==
    /\ alive /\ alive' /\ Len(inflight') < Len(inflight)
    /\ gpsEnabled /\ ~gpsEnabled'

\* C17 as stated: a capture that finds the location permission denied makes
\* tracking inactive.
C17_Original == [][DeniedStep => ~isTracking']_vars

\* a step in which a capture fails with a timeout: a request ends, no
\* position was accepted and gpsEnabled stays
TimeoutStep ==
    /\ alive /\ alive' /\ Len(inflight') < Len(inflight)
    /\ lastCaptureTime' = lastCaptureTime
    /\ gpsEnabled' = gpsEnabled

\* C18 as stated: after a capture fails with a timeout the lock is free,
\* tracking is as active as before with its timer armed, and the history, its
\* slots, was_tracking and tracking_interval are unchanged.
C18_Original ==
    [][TimeoutStep =>
         /\ ~trackingLock'
         /\ isTracking' = isTracking
         /\ (isTracking' /\ depIsTracking') => TimerArmed'
         /\ UNCHANGED <<history, location_history, location_history_backup,
                        was_tracking, tracking_interval>>]_vars

\* a step in which one postToSheets thread ends
PostEnd == Cardinality(posts') + 1 = Cardinality(posts) /\ svcRunning' = svcRunning

\* C19: a POST counts as delivered exactly when it was answered 200 or 302;
\* a delivered POST sets last_upload_time to the current time, and a POST
\* that ends with another status or an exception, a thread that finds no
\* sheets_url, and every other step leave last_upload_time unchanged.
C19_DeliverySuccess ==
    /\ [][(PostEnd /\ sheets_url # "") =>
            LET k == CHOOSE x \in posts : x \notin posts'
                ok == postResult' \in {"200", "302"}
            IN /\ (k \in delivered') <=> ok
               /\ delivered' \ {k} = delivered
               /\ last_upload_time' = (IF ok THEN now' ELSE last_upload_time)]_vars
    /\ [][(PostEnd /\ sheets_url = "") =>
            UNCHANGED <<delivered, last_upload_time>>]_vars
    /\ [][last_upload_time' # last_upload_time =>
            (PostEnd /\ postResult' \in {"200", "302"})]_vars

\* C19 witness: a POST was delivered, time passed, and a later POST answered
\* 500 has left last_upload_time at the time of the delivery
C19_Witness ==
    /\ delivered # {} /\ postResult = "500"
    /\ last_upload_time # 0 /\ last_upload_time < now
    /\ Cardinality(delivered) + Cardinality(posts) < captured

\* C20 as stated: when connectivity comes back while points wait in the
\* queue, the step that takes notice of it starts a flush of the queue.
C20_Original ==
    [][(qAlive /\ qAlive' /\ ~isOnline /\ isOnline' /\ queue # <<>>) =>
         Len(syncs') > Len(syncs)]_vars

\* a step in which the Promise.all of a waiting handleSync settles
SettleStep == qAlive /\ qAlive' /\ Len(syncs') < Len(syncs)

\* C21 as stated: when a sync settles, exactly the entries whose own write
\* succeeded leave the queue; every other entry stays queued.
C21_Original ==
    [][SettleStep =>
         Ids(queue') = Ids(queue) \ {sinkOrder'[n] : n \in DOMAIN sinkOrder'}]_vars

\* C22 as stated: a handleSync starts its uploads only while no earlier
\* handleSync is still awaiting its own.
C22_Original == [][Len(syncs') > Len(syncs) => syncs = <<>>]_vars

\* C23 as stated: the queue loaded at a process start holds every point
\* captured so far that has not been confirmed delivered.
C23_Original ==
    [][(~qAlive /\ qAlive') =>
         \A k \in 1..qPoints : k \in Ids(queue') \/ k \in qDelivered]_vars

\* C30 as stated: the writes of a sync reach the sink in the order in which
\* their entries were enqueued.
C30_Original ==
    [][SettleStep =>
         \A a, b \in DOMAIN sinkOrder' : a < b => sinkOrder'[a] < sinkOrder'[b]]_vars


(* --------------------------- the watchdog ----------------------------- *)
\* a step in which one run of the 7-hour check is made
CheckStep == svcRunning /\ checksDue' < checksDue

\* SyncState.lastSuccessfulUploadAt as the specification has it: the time of
\* the last delivery, the process start time when there has been none
lastSuccessfulUploadAt == IF last_upload_time = 0 THEN createdAt ELSE last_upload_time

\* C24 as stated: a run of the check raises the alert if and only if the time
\* since lastSuccessfulUploadAt exceeds seven hours.
C24_Original ==
    [][CheckStep =>
         (lastCheck'.alert <=> now - lastSuccessfulUploadAt > StaleHours * MsPerHour)]_vars

\* C25 as stated: no hourly period sees more than one staleness alert,
\* however many times onStartCommand has run on the service.
C25_Original == alertsInPeriod <= 1

\* C26 as stated: with no delivery ever made, a run of the check more than
\* seven hours after the service was created raises the alert.
C26_Original ==
    [][(CheckStep /\ last_upload_time = 0
           /\ now - createdAt > StaleHours * MsPerHour) => lastCheck'.alert]_vars

\* C27: a run of the check registers with no provider, receives no location,
\* starts and ends no POST and leaves location_history and last_upload_time
\* as they are; and a run that is due can be made whatever captures and
\* POSTs are pending.
C27_CheckObservesOnly ==
    /\ [][CheckStep =>
            UNCHANGED <<registered, captured, posts, delivered, postResult,
                        prefs_location_history, last_upload_time>>]_vars
    /\ [](variant = "watchdog" /\ svcRunning /\ checksDue > 0 => ENABLED CheckRun)

\* the check of the current hour has been made while the POST of a location
\* received in an earlier hour has not ended
C27_Witness ==
    /\ svcRunning /\ checkTasks > 0 /\ checksDue = 0
    /\ lastCheck # NoCheck
    /\ posts # {}
    /\ prefs_location_history.present
    /\ \A k \in Ids(JSONparse(prefs_location_history.text).val) : k < now


(* ----------------------------- restarts ------------------------------- *)
\* a step in which the BootReceiver handles the first boot broadcast
BootStep == bootOutcome = "none" /\ bootOutcome' # "none"

\* C29 as stated: the boot broadcast restarts tracking if and only if the
\* app had persisted was_tracking as active before the reboot.
C29_Original ==
    [][BootStep => (bootOutcome' = "restarted" <=> was_tracking = "true")]_vars


\* a step in which the restart alarm set by onTaskRemoved is delivered
AlarmStep == restartAlarm # 0 /\ restartAlarm' = 0

\* C28 as stated: the restart request of onTaskRemoved, once delivered to
\* a process that was killed in the meantime, leaves the service running
\* and registered for location updates.
C28_Original ==
    [][(AlarmStep /\ ~svcRunning) => (svcRunning' /\ registered' # {})]_vars


(* ------------------------- the native history ------------------------- *)
\* a step in which onLocationChanged receives a location
LocationStep == captured' = captured + 1

\* C31 as stated: every location received is handed to postToSheets, also
\* when its saveToLocalStorage call failed.
C31_Original ==
    [][LocationStep => (captured' \in posts')]_vars


(* ------------------------ failures of the save ------------------------ *)
\* a step in which a position arrives and a write of its saveHistory throws
FailedSaveStep == alive /\ alive' /\ Len(inflight') < Len(inflight) /\ faults' > faults

\* C32: when a write of saveHistory throws, 'Save verification failed' is
\* logged, the history in memory is the old one with the new entry at its
\* head, the lock is free again and the tracking state, the timer handle and
\* was_tracking are as they were.
C32_FailedSaveKeepsEntry ==
    [][FailedSaveStep =>
         /\ ~lastSaveOk'
         /\ LastLog' = "Save verification failed"
         /\ history' # <<>>
         /\ history'[1].id \in {inflight[i] : i \in 1..Len(inflight)}
         /\ history' = appendEntry(history'[1], history)
         /\ ~trackingLock'
         /\ UNCHANGED <<isTracking, depIsTracking, intervalRef, pendingCb, was_tracking>>]_vars

\* tracking is on, the last save failed and left the primary slot behind the
\* history in memory
C32_Witness ==
    /\ alive /\ isTracking /\ faults > 0
    /\ ~lastSaveOk /\ LastLog = "Save verification failed"
    /\ history # <<>>
    /\ location_history # Stored(JSONstringify(history))


(* --------------------------- order of the log -------------------------- *)
\* new is old with one entry put at its head, cut to the capacity at its tail
PrependedTo(new, old) ==
    /\ Len(new) = Min(HistoryCapacity, Len(old) + 1)
    /\ \A k \in 2..Len(new) : new[k] = old[k - 1]

\* a step in which the web app accepts a capture
AcceptStep == alive /\ alive' /\ Len(inflight') < Len(inflight) /\ history' # history

\* what the native service has stored under location_history
NativeLog(slot) == IF slot.present THEN JSONparse(slot.text).val ELSE <<>>

\* a step in which the native service stores a location
StoreStep == LocationStep /\ ~storeFailed'

NewestFirst(s) == \A k \in 1..(Len(s) - 1) : s[k].id > s[k + 1].id

\* C34: the web app's history is always ordered newest first with strictly
\* decreasing ids, in memory and as a restart loads it.
C34_NewestFirst ==
    /\ variant \in WebVariants /\ alive => NewestFirst(history)
    /\ variant \in WebVariants =>
          NewestFirst(loadHistory(location_history, location_history_backup).val)

\* after a restart the app has put a capture in front of one made less than
\* the minimum gap earlier, before the restart
C34_Witness ==
    /\ variant \in WebVariants /\ alive
    /\ Len(history) = 2
    /\ lastCaptureTime = history[1].id
    /\ history[1].id - history[2].id < MinGapMs
    /\ history[1].id > history[2].id


\* C35 as stated: a location the native service stores is at least the
\* minimum gap later than every stored entry, or more than the epsilon away
\* from it in latitude or in longitude.
C35_Original ==
    [][StoreStep =>
         LET new == NativeLog(prefs_location_history')[1]
             old == NativeLog(prefs_location_history)
         IN \A k \in 1..Len(old) :
               \/ new.id - old[k].id >= MinGapMs
               \/ Abs(new.latitude - old[k].latitude) > Eps
               \/ Abs(new.longitude - old[k].longitude) > Eps]_vars


(* -------------------------- the tracking flag -------------------------- *)
\* C36 as stated: was_tracking goes from 'true' to 'false' only in a running
\* app whose tracking effect runs after a stop, never in a start-up.
C36_Original ==
    [][(was_tracking = "true" /\ was_tracking' = "false") =>
          (alive /\ ~isTracking /\ depIsTracking)]_vars


(* ------------------------- the page's timers -------------------------- *)
\* C37 as stated: the page has at most one capture timer armed, and none
\* when tracking is off and no start is under way.
C37_Original ==
    /\ Cardinality(pgTimers) <= 1
    /\ (~pgTracking /\ pgPermWaits = 0 /\ pgSvcWaits = 0) => pgTimers = {}


\* a step in which a checkGPS call of the GPS status checker got a position
GpsCheckOk ==
    /\ alive /\ alive'
    /\ gpsChecks' = gpsChecks - 1
    /\ gpsCheckResult' = "ok"

\* C38 as stated: once the location-disabled flag is set (gpsEnabled false),
\* the next check of the GPS status checker that gets a position sets
\* gpsEnabled back to true.
C38_Original == [][(GpsCheckOk /\ ~gpsEnabled) => gpsEnabled']_vars


\* C39 as stated: every capture whose delivery the client recorded as
\* successful (a 200 or 302 response, last_upload_time updated) has a row in
\* the sheet, appended by doPost.
C39_Original == \A k \in delivered : k \in sheetRows

====
